---- MODULE Spec2Model ----
(***************************************************************************)
(* The manual backpropagation engine of the lecture notebook "Part 2: The  *)
(* backpropagation algorithm": the classes LinearLayer, ReLU and Sigmoid,  *)
(* and the notebook cells that drive a forward and a backward pass over    *)
(* layers = [l0, a0, l1, a1].                                              *)
(*                                                                         *)
(* Numbers are exact rationals <<n, d>> (d > 0, lowest terms), tensors are *)
(* sequences of rows.  Python's None is the empty tuple.                   *)
(***************************************************************************)
EXTENDS Integers, Sequences, FiniteSets, TLC

VARIABLES
    dense,      \* a LinearLayer the caller drives call by call (or None)
    relu,       \* a ReLU the caller drives call by call (or None)
    sigmoid,    \* a Sigmoid the caller drives call by call (or None)
    gd,         \* the variables of notebook 1, gradient descent (or None)
    layers,     \* the notebook's list [l0, a0, l1, a1]
    x_in,       \* the input batch of the notebook
    y,          \* the labels of the notebook
    pc,         \* the notebook cell (or loop iteration) to run next
    idx,        \* position of the running loop in layers
    out,        \* the notebook's variable out (probs_np after the loop)
    grad,       \* the notebook's variable grad
    calls,      \* history: the layer calls made by the notebook's loops
    ret,        \* history: what the most recent call returned
    lastCall,   \* history: the most recent call, [obj, op]
    hist        \* history of the driven layer, see HistInit

vars == <<dense, relu, sigmoid, gd, layers, x_in, y, pc, idx, out, grad,
          calls, ret, lastCall, hist>>

None == << >>

\* What a call that ended in an exception "returns".
Raised == << <<"raised">> >>

-----------------------------------------------------------------------------
(* Rational arithmetic: the arithmetic numpy does on array elements.        *)

RECURSIVE GCD(_, _)
GCD(a, b) == IF b = 0 THEN a ELSE GCD(b, a % b)

Abs(n) == IF n < 0 THEN -n ELSE n

Norm(n, d) ==
    LET s == IF d < 0 THEN -1 ELSE 1
        g == GCD(Abs(n), Abs(d))
    IN  <<(s * n) \div g, (s * d) \div g>>

R(n) == <<n, 1>>

\* (integers need no cancellation)
RAdd(a, b) ==
    IF a[2] = 1 /\ b[2] = 1 THEN <<a[1] + b[1], 1>>
    ELSE Norm(a[1] * b[2] + b[1] * a[2], a[2] * b[2])
RNeg(a) == <<-a[1], a[2]>>
RSub(a, b) == RAdd(a, RNeg(b))
RMul(a, b) ==
    IF a[2] = 1 /\ b[2] = 1 THEN <<a[1] * b[1], 1>>
    ELSE Norm(a[1] * b[1], a[2] * b[2])
RDiv(a, b) == Norm(a[1] * b[2], a[2] * b[1])
RGt0(a) == a[1] > 0

RECURSIVE RSum(_)
RSum(s) == IF s = << >> THEN R(0) ELSE RAdd(s[1], RSum(Tail(s)))

-----------------------------------------------------------------------------
(* numpy on 2-D arrays.                                                     *)

Rows(m) == Len(m)
Cols(m) == Len(m[1])

\* ndarray.T
Transpose(m) == [j \in 1..Cols(m) |-> [i \in 1..Rows(m) |-> m[i][j]]]

\* ndarray.dot raises ValueError unless the inner dimensions agree.
DotOk(a, b) == Cols(a) = Rows(b)

Dot(a, b) ==
    [i \in 1..Rows(a) |-> [j \in 1..Cols(b) |->
        RSum([k \in 1..Cols(a) |-> RMul(a[i][k], b[k][j])])]]

\* np.sum(m, axis=0, keepdims=True): one row holding the column sums.
SumAxis0(m) ==
    << [j \in 1..Cols(m) |-> RSum([i \in 1..Rows(m) |-> m[i][j]])] >>

\* numpy broadcasting of two 2-D operands: along each axis the sizes are
\* equal or one of them is 1.
BroadcastOk(a, b) ==
    /\ Rows(a) = Rows(b) \/ Rows(a) = 1 \/ Rows(b) = 1
    /\ Cols(a) = Cols(b) \/ Cols(a) = 1 \/ Cols(b) = 1

Max(p, q) == IF p > q THEN p ELSE q

At(m, i, j) ==
    m[IF Rows(m) = 1 THEN 1 ELSE i][IF Cols(m) = 1 THEN 1 ELSE j]

\* a + b and a * b on arrays.
Add(a, b) ==
    [i \in 1..Max(Rows(a), Rows(b)) |-> [j \in 1..Max(Cols(a), Cols(b)) |->
        RAdd(At(a, i, j), At(b, i, j))]]

Mul(a, b) ==
    [i \in 1..Max(Rows(a), Rows(b)) |-> [j \in 1..Max(Cols(a), Cols(b)) |->
        RMul(At(a, i, j), At(b, i, j))]]

\* A 1-D array enters a 2-D operation as a single row.
AsRow(v) == <<v>>

\* (x > 0) as an array of 0/1.
Gt0(x) ==
    [i \in 1..Rows(x) |-> [j \in 1..Cols(x) |->
        IF RGt0(x[i][j]) THEN R(1) ELSE R(0)]]

-----------------------------------------------------------------------------
(* class LinearLayer                                                        *)

\* __init__ with the weights and bias it drew.
LinearLayer(shape, weights, bias) ==
    [cls |-> "LinearLayer", shape |-> shape, weights |-> weights,
     bias |-> bias, input |-> None, grad_weights |-> None,
     grad_bias |-> None]

\* forward_pass stores x before the product is formed.
LinearForwardOk(self, x) == DotOk(x, self.weights)

\* Mutant: the bias is left out of the affine map.
LinearForwardRetNoBias(self, x) == Dot(x, self.weights)

\* Mutant: the bias is added on the first call only, while no input is
\* stored yet.
LinearForwardRetWarm(self, x) ==
    IF self.input = None THEN Add(Dot(x, self.weights), AsRow(self.bias))
    ELSE Dot(x, self.weights)

LinearForwardRet(self, x) == Add(Dot(x, self.weights), AsRow(self.bias))

\* Mutant: forward_pass resets the gradients of the pass before.
LinearForwardClearing(self, x) ==
    [self |-> [self EXCEPT !.input = x, !.grad_weights = None,
                           !.grad_bias = None],
     ret |-> LinearForwardRet(self, x)]

LinearForward(self, x) ==
    [self |-> [self EXCEPT !.input = x], ret |-> LinearForwardRet(self, x)]

\* backward_pass: self.input.T raises AttributeError on None, and the first
\* product raises ValueError on a batch mismatch, before any assignment.
LinearBackwardOk(self, cum_grad) ==
    /\ self.input # None
    /\ DotOk(Transpose(self.input), cum_grad)

\* Mutant: the gradient is added to the one already stored.
LinearGradWeightsAccumulated(self, cum_grad) ==
    IF self.grad_weights = None
    THEN Dot(Transpose(self.input), cum_grad)
    ELSE Add(self.grad_weights, Dot(Transpose(self.input), cum_grad))

\* Mutant: the product taken the other way round, cum_grad.T.dot(self.input).
LinearGradWeightsTransposed(self, cum_grad) ==
    Dot(Transpose(cum_grad), self.input)

LinearGradWeights(self, cum_grad) == Dot(Transpose(self.input), cum_grad)

\* Mutant: np.mean in place of np.sum.
LinearGradBiasMean(self, cum_grad) ==
    Mul(SumAxis0(cum_grad), <<<<RDiv(R(1), R(Rows(cum_grad)))>>>>)

LinearGradBias(self, cum_grad) == SumAxis0(cum_grad)

\* Mutant: the gradient is propagated through weights that have already
\* taken a descent step.
LinearBackwardRetUpdated(self, cum_grad) ==
    LET weights == Add(self.weights,
                       Mul(Dot(Transpose(self.input), cum_grad), <<<<R(-1)>>>>))
    IN  Dot(cum_grad, Transpose(weights))

\* Mutant: the gradient is handed on without the product with weights.T.
LinearBackwardRetUnprojected(self, cum_grad) == cum_grad

LinearBackwardRet(self, cum_grad) ==
    LET weights == self.weights   \* weights = self.weights.copy()
    IN  Dot(cum_grad, Transpose(weights))

\* Mutant: backward_pass applies the descent step it is meant to skip.
LinearBackwardUpdating(self, cum_grad) ==
    [self |-> [self EXCEPT !.grad_weights = LinearGradWeights(self, cum_grad),
                           !.grad_bias = LinearGradBias(self, cum_grad),
                           !.weights = Add(self.weights,
                               Mul(LinearGradWeights(self, cum_grad),
                                   <<<<R(-1)>>>>))],
     ret |-> LinearBackwardRet(self, cum_grad)]

\* The product that is returned is formed last: a ValueError there leaves
\* the two gradients assigned.
LinearBackward(self, cum_grad) ==
    [self |-> [self EXCEPT !.grad_weights = LinearGradWeights(self, cum_grad),
                           !.grad_bias = LinearGradBias(self, cum_grad)],
     ret |-> IF DotOk(cum_grad, Transpose(self.weights))
             THEN LinearBackwardRet(self, cum_grad)
             ELSE Raised]

-----------------------------------------------------------------------------
(* class ReLU                                                               *)

ReLU == [cls |-> "ReLU", input |-> None, grad |-> None]

\* Mutant: negative entries are passed on with their sign dropped.
ReLUForwardRetAbs(x) ==
    [i \in 1..Rows(x) |-> [j \in 1..Cols(x) |->
        IF x[i][j][1] > 0 THEN x[i][j] ELSE RNeg(x[i][j])]]

ReLUForwardRet(x) == Mul(Gt0(x), x)

\* Mutant: forward_pass keeps the mask for the backward pass in grad.
ReLUForwardCaching(self, x) ==
    [self |-> [self EXCEPT !.input = x, !.grad = Gt0(x)],
     ret |-> ReLUForwardRet(x)]

ReLUForward(self, x) ==
    [self |-> [self EXCEPT !.input = x], ret |-> ReLUForwardRet(x)]

\* Mutant: the derivative at 0 taken as 1 (x >= 0).
ReLUGradientAtZeroOne(x) ==
    [i \in 1..Rows(x) |-> [j \in 1..Cols(x) |->
        IF x[i][j][1] >= 0 THEN R(1) ELSE R(0)]]

ReLUGradient(x) == Gt0(x)

\* (None > 0) raises TypeError; cum_grad * self.grad raises ValueError when
\* the shapes do not broadcast, after self.grad has been assigned.
ReLUBackwardOk(self, cum_grad) == self.input # None

ReLUBackward(self, cum_grad) ==
    LET g == ReLUGradient(self.input)
    IN  [self |-> [self EXCEPT !.grad = g],
         ret |-> IF BroadcastOk(cum_grad, g) THEN Mul(cum_grad, g)
                 ELSE Raised]

-----------------------------------------------------------------------------
(* class Sigmoid                                                            *)

\* np.exp over the rationals, for an integral argument: e is taken as the
\* fraction ExpBase, so that exp(a + b) = exp(a) * exp(b), exp(0) = 1 and
\* exp(x) > 0 hold exactly.
ExpBase == <<8, 3>>

RECURSIVE RPow(_, _)
RPow(a, k) == IF k = 0 THEN R(1) ELSE RMul(a, RPow(a, k - 1))

Exp(x) ==
    IF x[1] >= 0 THEN RPow(ExpBase, x[1])
    ELSE RDiv(R(1), RPow(ExpBase, -x[1]))

Sigmoid == [cls |-> "Sigmoid", input |-> None, grad |-> None]

\* _sigmoid: 1 / (1 + np.exp(-x)), entry by entry.
SigmoidFn(x) ==
    [i \in 1..Rows(x) |-> [j \in 1..Cols(x) |->
        RDiv(R(1), RAdd(R(1), Exp(RNeg(x[i][j]))))]]

SigmoidForward(self, x) ==
    [self |-> [self EXCEPT !.input = x], ret |-> SigmoidFn(x)]

\* Mutant: the derivative formed from the stored value as if it were the
\* cached output, x * (1 - x).
SigmoidGradientOfOutput(x) ==
    LET one == <<<<R(1)>>>>
        minus == <<<<R(-1)>>>>
    IN  Mul(x, Add(one, Mul(minus, x)))

\* gradient: _sigmoid(x) * (1 - _sigmoid(x))
SigmoidGradient(x) ==
    LET one == <<<<R(1)>>>>
        minus == <<<<R(-1)>>>>
    IN  Mul(SigmoidFn(x), Add(one, Mul(minus, SigmoidFn(x))))

\* -None raises TypeError before self.grad is assigned.
SigmoidBackwardOk(self, cum_grad) == self.input # None

\* Mutant: the gradient is handed on as it came, as if the seed had been
\* taken with respect to the logits.
SigmoidBackwardNoChain(self, cum_grad) ==
    LET g == SigmoidGradient(self.input)
    IN  [self |-> [self EXCEPT !.grad = g],
         ret |-> IF BroadcastOk(cum_grad, g) THEN cum_grad ELSE Raised]

SigmoidBackward(self, cum_grad) ==
    LET g == SigmoidGradient(self.input)
    IN  [self |-> [self EXCEPT !.grad = g],
         ret |-> IF BroadcastOk(cum_grad, g) THEN Mul(cum_grad, g)
                 ELSE Raised]

-----------------------------------------------------------------------------
(* _sigmoid in float64, the arithmetic numpy computes it in.  A positive    *)
(* float64 is followed through 1 / (1 + np.exp(-x)) by its binary exponent  *)
(* alone, which decides where the quotient lies: at 0.0, strictly between   *)
(* 0.0 and 1.0, or at 1.0.  The argument is a whole number n.               *)

\* log2(e) in millionths: e^n lies in [2^k, 2^(k+1)) for
\* k = floor(n * log2(e)).
Log2eMicro == 1442695

\* float64: 53 significant bits, every finite value is below 2^1024, and a
\* positive value below 2^-1075 rounds to 0.0.
F64Precision == 53
F64MaxExp == 1024
F64MinExp == -1075

\* np.exp(n): inf on overflow (numpy warns and goes on), 0.0 on underflow,
\* a positive float64 of binary exponent exp otherwise.
NpExpF64(n) ==
    LET k == (n * Log2eMicro) \div 1000000
    IN  IF k >= F64MaxExp THEN [kind |-> "inf"]
        ELSE IF k < F64MinExp THEN [kind |-> "zero"]
        ELSE [kind |-> "pos", exp |-> k]

\* Mutant: the sum 1 + t formed without rounding.
OnePlusExact(t) ==
    CASE t.kind = "inf" -> [kind |-> "inf"]
      [] t.kind = "zero" -> [kind |-> "one"]
      [] t.kind = "pos" -> [kind |-> "above_one"]

\* 1 + t: a t below 2^-53 (half the gap between 1.0 and the next float64)
\* is rounded away and the sum is 1.0.
OnePlusF64(t) ==
    CASE t.kind = "inf" -> [kind |-> "inf"]
      [] t.kind = "zero" -> [kind |-> "one"]
      [] t.kind = "pos" ->
           IF t.exp < -F64Precision THEN [kind |-> "one"]
           ELSE [kind |-> "above_one"]

\* 1 / s: 1 / inf is 0.0 and 1 / 1.0 is 1.0; a finite s above 1.0 is at
\* least 1 + 2^-52 and below 2^1024, so the quotient is a positive float64
\* below 1.0.
OneOverF64(s) ==
    CASE s.kind = "inf" -> "0.0"
      [] s.kind = "one" -> "1.0"
      [] s.kind = "above_one" -> "(0,1)"

\* Where the float64 value of _sigmoid lies, entry by entry, for an array of
\* whole numbers.
SigmoidFnF64(x) ==
    [i \in 1..Rows(x) |-> [j \in 1..Cols(x) |->
        OneOverF64(OnePlusF64(NpExpF64(-(x[i][j][1]))))]]

SigmoidForwardF64(self, x) ==
    [self |-> [self EXCEPT !.input = x], ret |-> SigmoidFnF64(x)]

-----------------------------------------------------------------------------
(* The values the caller and the notebook hand in.                          *)

\* Largest batch (number of rows) of a tensor handed to a layer.
MaxBatch == 2

Batches == 1..MaxBatch

\* A row of c consecutive integers starting at v.
Ramp(c, v) == [j \in 1..c |-> R(v + j - 1)]

\* All arrays of r rows, each row a ramp of length c starting in V.
Arrays(r, c, V) == [1..r -> {Ramp(c, v) : v \in V}]

\* The r-by-c array holding v, v + 1, ... in row-major order.
Grid(r, c, v) == [i \in 1..r |-> Ramp(c, v + (i - 1) * c)]

\* Shapes (in_dim, out_dim) of the driven LinearLayer.
Shapes == {<<2, 1>>, <<1, 2>>}

WeightVals == {-1, 2}
BiasVals == {0, 3}
InputVals == {-1, 2}
GradVals == {1, -3}

\* Entries of the tensors handed to the driven ReLU, and their width (a row
\* of two consecutive integers can hold a negative entry next to a 0, or a 0
\* next to a positive one).
ReLUVals == {-1, 0}
ReLUWidths == {2}

ReLUInputs ==
    UNION {Arrays(b, c, ReLUVals) : b \in Batches, c \in ReLUWidths}
ReLUCumGrads ==
    UNION {Arrays(b, c, GradVals) : b \in Batches, c \in ReLUWidths}

\* Largest magnitude of an input handed to the float64 Sigmoid.
MaxLogit == 720
Logits == (-MaxLogit)..MaxLogit

\* Entries of the tensors handed to the driven Sigmoid; they have one column,
\* as the output of l1 has.
SigmoidVals == {-1, 1}
SigmoidInputs == UNION {Arrays(b, 1, SigmoidVals) : b \in Batches}
SigmoidCumGrads == UNION {Arrays(b, 1, GradVals) : b \in Batches}

Weights(s) == {Grid(s[1], s[2], v) : v \in WeightVals}
Biases(s) == {Ramp(s[2], v) : v \in BiasVals}
Inputs(s) == UNION {Arrays(b, s[1], InputVals) : b \in Batches}
CumGrads(s) == UNION {Arrays(b, s[2], GradVals) : b \in Batches}

\* The notebook's data and parameters: x_in has two columns, y one column of
\* labels 0/1, l0 is LinearLayer((2, 4)) and l1 is LinearLayer((4, 1)).
NetInputVals == {-1, 0, 1}
NetInputs == UNION {Arrays(b, 2, NetInputVals) : b \in Batches}
Labels(b) == [1..b -> {<<R(0)>>, <<R(1)>>}]

\* An array, or a 1-D array, of integers.
Ints(m) == [i \in 1..Len(m) |-> [j \in 1..Len(m[i]) |-> R(m[i][j])]]
Ints1(v) == [j \in 1..Len(v) |-> R(v[j])]

NetWeights0 == {Ints(<< <<1, -1, 0, 1>>, <<0, 1, -1, -1>> >>),
                Ints(<< <<-1, 1, 1, 0>>, <<1, 0, -1, 1>> >>)}
NetBias0 == {Ints1(<<0, 1, -1, 0>>)}
NetWeights1 == {Ints(<< <<1>>, <<-1>>, <<1>>, <<0>> >>),
                Ints(<< <<-1>>, <<1>>, <<0>>, <<1>> >>)}
NetBias1 == {Ints1(<<0>>), Ints1(<<-1>>)}

\* History of the driven layer: what the latest forward_pass was given
\* and the weights it ran with; what the latest backward_pass that returned
\* was given and the input the layer held when it ran.
HistInit == [fwdArg |-> None, fwdWeights |-> None, bwdArg |-> None,
             bwdInput |-> None]

NoCall == [obj |-> "none", op |-> "none"]

\* The notebook has not been started (the specifications that drive a
\* single layer leave it so).
NotebookIdle ==
    /\ layers = << >>
    /\ x_in = None
    /\ y = None
    /\ pc = "idle"
    /\ idx = 0
    /\ out = None
    /\ grad = None
    /\ calls = << >>

NotebookVars == <<layers, x_in, y, pc, idx, out, grad, calls>>

-----------------------------------------------------------------------------
(* A caller driving one LinearLayer.                                        *)

InitDense ==
    /\ \E s \in Shapes :
         \E w \in Weights(s) :
           \E b \in Biases(s) :
             dense = LinearLayer(s, w, b)
    /\ relu = None
    /\ sigmoid = None
    /\ NotebookIdle
    /\ ret = None
    /\ lastCall = NoCall
    /\ hist = HistInit
    /\ gd = None

\* dense.forward_pass(x)
DenseForwardPass(x) ==
    /\ LinearForwardOk(dense, x)
    /\ dense' = LinearForward(dense, x).self
    /\ ret' = LinearForward(dense, x).ret
    /\ lastCall' = [obj |-> "dense", op |-> "forward_pass"]
    /\ hist' = [hist EXCEPT !.fwdArg = x, !.fwdWeights = dense.weights]
    /\ UNCHANGED <<relu, sigmoid, NotebookVars, gd>>

\* Mutant: grad_bias is assigned first, so that it is set when the product
\* for grad_weights raises.
DenseBackwardPassBiasFirst(cum_grad) ==
    /\ IF LinearBackwardOk(dense, cum_grad)
       THEN /\ dense' = LinearBackward(dense, cum_grad).self
            /\ ret' = LinearBackward(dense, cum_grad).ret
            /\ hist' = [hist EXCEPT !.bwdArg = cum_grad,
                                    !.bwdInput = dense.input]
       ELSE /\ ret' = Raised
            /\ dense' = [dense EXCEPT !.grad_bias = SumAxis0(cum_grad)]
            /\ UNCHANGED hist
    /\ lastCall' = [obj |-> "dense", op |-> "backward_pass"]
    /\ UNCHANGED <<relu, sigmoid, NotebookVars, gd>>

\* dense.backward_pass(cum_grad); an exception raised by the first product
\* leaves the layer as it was.
DenseBackwardPass(cum_grad) ==
    /\ IF LinearBackwardOk(dense, cum_grad)
       THEN /\ dense' = LinearBackward(dense, cum_grad).self
            /\ ret' = LinearBackward(dense, cum_grad).ret
            /\ hist' = [hist EXCEPT !.bwdArg = cum_grad,
                                    !.bwdInput = dense.input]
       ELSE /\ ret' = Raised
            /\ UNCHANGED <<dense, hist>>
    /\ lastCall' = [obj |-> "dense", op |-> "backward_pass"]
    /\ UNCHANGED <<relu, sigmoid, NotebookVars, gd>>

\* dense.weights = w, the caller's assignment (as the notebook does with
\* l0.weights and l1.weights).
DenseSetWeights(w) ==
    /\ w # dense.weights
    /\ dense' = [dense EXCEPT !.weights = w]
    /\ ret' = None
    /\ lastCall' = [obj |-> "dense", op |-> "set_weights"]
    /\ UNCHANGED <<relu, sigmoid, hist, NotebookVars, gd>>

NextDense ==
    \/ \E x \in Inputs(dense.shape) : DenseForwardPass(x)
    \/ \E g \in CumGrads(dense.shape) : DenseBackwardPass(g)
    \/ \E w \in Weights(dense.shape) : DenseSetWeights(w)

SpecDense == InitDense /\ [][NextDense]_vars

-----------------------------------------------------------------------------
(* A caller driving one ReLU.                                               *)

InitReLU ==
    /\ relu = ReLU
    /\ dense = None
    /\ sigmoid = None
    /\ NotebookIdle
    /\ ret = None
    /\ lastCall = NoCall
    /\ hist = HistInit
    /\ gd = None

\* relu.forward_pass(x)
ReLUForwardPass(x) ==
    /\ relu' = ReLUForward(relu, x).self
    /\ ret' = ReLUForward(relu, x).ret
    /\ lastCall' = [obj |-> "relu", op |-> "forward_pass"]
    /\ hist' = [hist EXCEPT !.fwdArg = x]
    /\ UNCHANGED <<dense, sigmoid, NotebookVars, gd>>

\* relu.backward_pass(cum_grad); with no stored input the exception comes
\* before self.grad is assigned.
ReLUBackwardPass(cum_grad) ==
    /\ IF ReLUBackwardOk(relu, cum_grad)
       THEN /\ relu' = ReLUBackward(relu, cum_grad).self
            /\ ret' = ReLUBackward(relu, cum_grad).ret
            /\ hist' = [hist EXCEPT !.bwdArg = cum_grad,
                                    !.bwdInput = relu.input]
       ELSE /\ ret' = Raised
            /\ UNCHANGED <<relu, hist>>
    /\ lastCall' = [obj |-> "relu", op |-> "backward_pass"]
    /\ UNCHANGED <<dense, sigmoid, NotebookVars, gd>>

NextReLU ==
    \/ \E x \in ReLUInputs : ReLUForwardPass(x)
    \/ \E g \in ReLUCumGrads : ReLUBackwardPass(g)

SpecReLU == InitReLU /\ [][NextReLU]_vars

-----------------------------------------------------------------------------
(* A caller driving one Sigmoid.                                            *)

InitSigmoid ==
    /\ sigmoid = Sigmoid
    /\ dense = None
    /\ relu = None
    /\ NotebookIdle
    /\ ret = None
    /\ lastCall = NoCall
    /\ hist = HistInit
    /\ gd = None

\* sigmoid.forward_pass(x)
SigmoidForwardPass(x) ==
    /\ sigmoid' = SigmoidForward(sigmoid, x).self
    /\ ret' = SigmoidForward(sigmoid, x).ret
    /\ lastCall' = [obj |-> "sigmoid", op |-> "forward_pass"]
    /\ hist' = [hist EXCEPT !.fwdArg = x]
    /\ UNCHANGED <<dense, relu, NotebookVars, gd>>

\* sigmoid.backward_pass(cum_grad); with no stored input the exception comes
\* before self.grad is assigned.
SigmoidBackwardPass(cum_grad) ==
    /\ IF SigmoidBackwardOk(sigmoid, cum_grad)
       THEN /\ sigmoid' = SigmoidBackward(sigmoid, cum_grad).self
            /\ ret' = SigmoidBackward(sigmoid, cum_grad).ret
            /\ hist' = [hist EXCEPT !.bwdArg = cum_grad,
                                    !.bwdInput = sigmoid.input]
       ELSE /\ ret' = Raised
            /\ UNCHANGED <<sigmoid, hist>>
    /\ lastCall' = [obj |-> "sigmoid", op |-> "backward_pass"]
    /\ UNCHANGED <<dense, relu, NotebookVars, gd>>

NextSigmoid ==
    \/ \E x \in SigmoidInputs : SigmoidForwardPass(x)
    \/ \E g \in SigmoidCumGrads : SigmoidBackwardPass(g)

SpecSigmoid == InitSigmoid /\ [][NextSigmoid]_vars

-----------------------------------------------------------------------------
(* A caller handing a Sigmoid inputs of any size, in float64.               *)

\* sigmoid.forward_pass(x) for a 1-by-1 array x holding the whole number n.
SigmoidForwardPassF64(n) ==
    /\ sigmoid' = SigmoidForwardF64(sigmoid, <<<<R(n)>>>>).self
    /\ ret' = SigmoidForwardF64(sigmoid, <<<<R(n)>>>>).ret
    /\ lastCall' = [obj |-> "sigmoid", op |-> "forward_pass"]
    /\ hist' = [hist EXCEPT !.fwdArg = <<<<R(n)>>>>]
    /\ UNCHANGED <<dense, relu, NotebookVars, gd>>

NextSigmoidF64 == \E n \in Logits : SigmoidForwardPassF64(n)

SpecSigmoidF64 == InitSigmoid /\ [][NextSigmoidF64]_vars

-----------------------------------------------------------------------------
(* A caller driving one activation layer, a ReLU or a Sigmoid.              *)

InitActivation == InitReLU \/ InitSigmoid

NextActivation ==
    \/ relu # None /\ NextReLU
    \/ sigmoid # None /\ NextSigmoid

SpecActivation == InitActivation /\ [][NextActivation]_vars

-----------------------------------------------------------------------------
(* A caller driving one layer of any of the three classes.                  *)

InitLayer == InitDense \/ InitReLU \/ InitSigmoid

NextLayer ==
    \/ dense # None /\ NextDense
    \/ relu # None /\ NextReLU
    \/ sigmoid # None /\ NextSigmoid

SpecLayer == InitLayer /\ [][NextLayer]_vars

-----------------------------------------------------------------------------
(* The notebook: layers = [l0, a0, l1, a1], one forward pass, the loss      *)
(* seed, one backward pass.                                                 *)

InitNet ==
    /\ \E w0 \in NetWeights0 : \E b0 \in NetBias0 :
         \E w1 \in NetWeights1 : \E b1 \in NetBias1 :
           layers = << LinearLayer(<<2, 4>>, w0, b0), ReLU,
                       LinearLayer(<<4, 1>>, w1, b1), Sigmoid >>
    /\ \E x \in NetInputs : x_in = x /\ y \in Labels(Len(x))
    /\ pc = "forward_cell"
    /\ idx = 0
    /\ out = None
    /\ grad = None
    /\ calls = << >>
    /\ dense = None
    /\ relu = None
    /\ sigmoid = None
    /\ ret = None
    /\ lastCall = NoCall
    /\ hist = HistInit
    /\ gd = None

\* layer.forward_pass(x) and layer.backward_pass(cum_grad), by the class of
\* the layer.
ForwardOk(layer, x) ==
    IF layer.cls = "LinearLayer" THEN LinearForwardOk(layer, x) ELSE TRUE

Forward(layer, x) ==
    CASE layer.cls = "LinearLayer" -> LinearForward(layer, x)
      [] layer.cls = "ReLU" -> ReLUForward(layer, x)
      [] layer.cls = "Sigmoid" -> SigmoidForward(layer, x)

BackwardOk(layer, cum_grad) ==
    CASE layer.cls = "LinearLayer" -> LinearBackwardOk(layer, cum_grad)
      [] layer.cls = "ReLU" -> ReLUBackwardOk(layer, cum_grad)
      [] layer.cls = "Sigmoid" -> SigmoidBackwardOk(layer, cum_grad)

Backward(layer, cum_grad) ==
    CASE layer.cls = "LinearLayer" -> LinearBackward(layer, cum_grad)
      [] layer.cls = "ReLU" -> ReLUBackward(layer, cum_grad)
      [] layer.cls = "Sigmoid" -> SigmoidBackward(layer, cum_grad)

\* Mutant: the forward loop runs over layers[::-1].
ForwardOrderReversed == [k \in 1..Len(layers) |-> Len(layers) + 1 - k]

\* for layer in layers: the position visited by iteration k.
ForwardOrder == [k \in 1..Len(layers) |-> k]

\* Mutant: the backward loop runs over layers.
BackwardOrderNotReversed == [k \in 1..Len(layers) |-> k]

\* for layer in layers[::-1]
BackwardOrder == [k \in 1..Len(layers) |-> Len(layers) + 1 - k]

\* out = x_in.copy()
ForwardCell ==
    /\ pc = "forward_cell"
    /\ out' = x_in
    /\ idx' = 1
    /\ pc' = "forward_loop"
    /\ UNCHANGED <<layers, x_in, y, grad, calls, dense, relu, sigmoid, ret,
                   lastCall, hist,
                   gd>>

\* One iteration of the forward loop: out = layer.forward_pass(out).  After
\* the last one probs_np = out; an exception ends the cell.
ForwardStep ==
    /\ pc = "forward_loop"
    /\ LET i == ForwardOrder[idx]
           layer == layers[i]
       IN  IF ForwardOk(layer, out)
           THEN LET r == Forward(layer, out)
                IN  /\ layers' = [layers EXCEPT ![i] = r.self]
                    /\ out' = r.ret
                    /\ calls' = Append(calls, [layer |-> i,
                                   op |-> "forward_pass", arg |-> out,
                                   ret |-> r.ret])
                    /\ idx' = idx + 1
                    /\ pc' = IF idx = Len(layers) THEN "seed_cell"
                             ELSE "forward_loop"
           ELSE /\ layers' = [layers EXCEPT ![i].input = out]
                /\ calls' = Append(calls, [layer |-> i,
                               op |-> "forward_pass", arg |-> out,
                               ret |-> Raised])
                /\ pc' = "raised"
                /\ UNCHANGED <<out, idx>>
    /\ UNCHANGED <<x_in, y, grad, dense, relu, sigmoid, ret, lastCall, hist,
                   gd>>

\* Entry i of -(y / probs_np) + (1 - y) / (1 - probs_np), divided by the
\* number of rows.
SeedEntry(yi, p, n) ==
    RDiv(RAdd(RNeg(RDiv(yi, p)), RDiv(RSub(R(1), yi), RSub(R(1), p))), R(n))

\* Mutant: the seed is left as the per-example gradient, not divided by the
\* number of rows.
SeedNotAveraged(labels, probs) ==
    [i \in 1..Rows(probs) |-> [j \in 1..Cols(probs) |->
        SeedEntry(labels[i][1], probs[i][j], 1)]]

Seed(labels, probs) ==
    [i \in 1..Rows(probs) |-> [j \in 1..Cols(probs) |->
        SeedEntry(labels[i][1], probs[i][j], Rows(probs))]]

\* grad = -(y / probs_np) + (1 - y) / (1 - probs_np); grad /= grad.shape[0]
SeedCell ==
    /\ pc = "seed_cell"
    /\ grad' = Seed(y, out)
    /\ calls' = Append(calls, [layer |-> 0, op |-> "seed", arg |-> out,
                               ret |-> Seed(y, out)])
    /\ idx' = 1
    /\ pc' = "backward_loop"
    /\ UNCHANGED <<layers, x_in, y, out, dense, relu, sigmoid, ret, lastCall,
                   hist,
                   gd>>

\* One iteration of the backward loop: grad = layer.backward_pass(grad).
BackwardStep ==
    /\ pc = "backward_loop"
    /\ LET i == BackwardOrder[idx]
           layer == layers[i]
       IN  IF BackwardOk(layer, grad)
           THEN LET r == Backward(layer, grad)
                IN  /\ layers' = [layers EXCEPT ![i] = r.self]
                    /\ calls' = Append(calls, [layer |-> i,
                                   op |-> "backward_pass", arg |-> grad,
                                   ret |-> r.ret])
                    /\ IF r.ret = Raised
                       THEN pc' = "raised" /\ UNCHANGED <<grad, idx>>
                       ELSE /\ grad' = r.ret
                            /\ idx' = idx + 1
                            /\ pc' = IF idx = Len(layers) THEN "done"
                                     ELSE "backward_loop"
           ELSE /\ calls' = Append(calls, [layer |-> i,
                               op |-> "backward_pass", arg |-> grad,
                               ret |-> Raised])
                /\ pc' = "raised"
                /\ UNCHANGED <<layers, grad, idx>>
    /\ UNCHANGED <<x_in, y, out, dense, relu, sigmoid, ret, lastCall, hist,
                   gd>>

NextNet == ForwardCell \/ ForwardStep \/ SeedCell \/ BackwardStep

SpecNet == InitNet /\ [][NextNet]_vars

-----------------------------------------------------------------------------
(* Notebook 1, gradient descent for the linear model                        *)
(* y = a + b x1 + c x2 + d x3: the manual loop, the autograd loop and the   *)
(* torch.nn loop.  gd holds the notebook's variables, the epoch e, the      *)
(* position i of the next statement of the loop body, and the parameters    *)
(* at the start of the running epoch (history).  1-D arrays are sequences   *)
(* of numbers.                                                              *)

\* Largest number of epochs run (n_epochs is 100_000 in the notebook).
MaxEpoch == 2

\* a * v, u + v, u - v, u * v entry by entry, v / k, and v.mean().
VScale(a, v) == [n \in 1..Len(v) |-> RMul(a, v[n])]
VAdd(u, v) == [n \in 1..Len(u) |-> RAdd(u[n], v[n])]
VSub(u, v) == [n \in 1..Len(u) |-> RSub(u[n], v[n])]
VMul(u, v) == [n \in 1..Len(u) |-> RMul(u[n], v[n])]
VSquare(v) == [n \in 1..Len(v) |-> RMul(v[n], v[n])]
VHalf(v) == [n \in 1..Len(v) |-> RDiv(v[n], R(2))]
VShift(a, v) == [n \in 1..Len(v) |-> RAdd(a, v[n])]
Mean(v) == RDiv(RSum(v), R(Len(v)))

\* y_pred = am + bm * x1 + cm * x2 + dm * x3
Predict(a, b, c, d, x1, x2, x3) ==
    VAdd(VAdd(VShift(a, VScale(b, x1)), VScale(c, x2)), VScale(d, x3))

\* loss = np.mean((y_pred - y) ** 2 / 2)
HalfSquaredError(y_pred, yy) == Mean(VHalf(VSquare(VSub(y_pred, yy))))

\* Mutant: the products are added up and not averaged.
GradMeanSummed(grad_y_pred, x) == RSum(VMul(grad_y_pred, x))

\* (grad_y_pred * x).mean()
GradMean(grad_y_pred, x) == Mean(VMul(grad_y_pred, x))

\* The 1 of (grad_y_pred * 1), broadcast.
Ones(v) == [n \in 1..Len(v) |-> R(1)]

\* am -= learning_rate * grad_a
Descend(p, lr, g) == RSub(p, RMul(lr, g))

\* The data (two observations), the starting values and the step size.  The
\* step sizes are ones whose powers stay small over the epochs run.
Data ==
    {[x1 |-> Ints1(<<1, 2>>), x2 |-> Ints1(<<0, 1>>), x3 |-> Ints1(<<1, -1>>),
      y |-> Ints1(<<2, -1>>)],
     [x1 |-> Ints1(<<2, 0>>), x2 |-> Ints1(<<1, 3>>), x3 |-> Ints1(<<0, 1>>),
      y |-> Ints1(<<1, 3>>)]}
StartValues == {Ints1(<<0, 0, 0, 0>>), Ints1(<<1, -1, 0, 1>>)}
LearningRates == {<<1, 2>>, <<1, 1>>}

\* Mutant: every parameter is updated as soon as its gradient is there, and
\* the prediction is formed anew for the next gradient.
ManualStatementsSequential ==
    <<"y_pred", "loss", "grad_y_pred", "grad_a", "am",
      "y_pred", "grad_y_pred", "grad_b", "bm",
      "y_pred", "grad_y_pred", "grad_c", "cm",
      "y_pred", "grad_y_pred", "grad_d", "dm">>

\* The body of the manual loop, statement by statement.
ManualStatements ==
    <<"y_pred", "loss", "grad_y_pred", "grad_a", "grad_b", "grad_c",
      "grad_d", "am", "bm", "cm", "dm">>

ManualExec(stmt, ns) ==
    CASE stmt = "y_pred" ->
           [ns EXCEPT !.y_pred = Predict(ns.am, ns.bm, ns.cm, ns.dm,
                                         ns.x1, ns.x2, ns.x3)]
      [] stmt = "loss" ->
           [ns EXCEPT !.loss = HalfSquaredError(ns.y_pred, ns.y)]
      [] stmt = "grad_y_pred" ->
           [ns EXCEPT !.grad_y_pred = VSub(ns.y_pred, ns.y)]
      [] stmt = "grad_a" ->
           [ns EXCEPT !.grad_a = GradMean(ns.grad_y_pred, Ones(ns.y))]
      [] stmt = "grad_b" ->
           [ns EXCEPT !.grad_b = GradMean(ns.grad_y_pred, ns.x1)]
      [] stmt = "grad_c" ->
           [ns EXCEPT !.grad_c = GradMean(ns.grad_y_pred, ns.x2)]
      [] stmt = "grad_d" ->
           [ns EXCEPT !.grad_d = GradMean(ns.grad_y_pred, ns.x3)]
      [] stmt = "am" ->
           [ns EXCEPT !.am = Descend(ns.am, ns.learning_rate, ns.grad_a)]
      [] stmt = "bm" ->
           [ns EXCEPT !.bm = Descend(ns.bm, ns.learning_rate, ns.grad_b)]
      [] stmt = "cm" ->
           [ns EXCEPT !.cm = Descend(ns.cm, ns.learning_rate, ns.grad_c)]
      [] stmt = "dm" ->
           [ns EXCEPT !.dm = Descend(ns.dm, ns.learning_rate, ns.grad_d)]

\* The layer classes and the notebook of part 2 take no part.
LayersIdle ==
    /\ dense = None
    /\ relu = None
    /\ sigmoid = None
    /\ NotebookIdle
    /\ ret = None
    /\ lastCall = NoCall
    /\ hist = HistInit

LayerVars == <<dense, relu, sigmoid, NotebookVars, ret, lastCall, hist>>

InitManual ==
    /\ \E dt \in Data : \E p \in StartValues : \E lr \in LearningRates :
         gd = [loop |-> "manual", e |-> 0, i |-> 1,
               x1 |-> dt.x1, x2 |-> dt.x2, x3 |-> dt.x3, y |-> dt.y,
               learning_rate |-> lr,
               am |-> p[1], bm |-> p[2], cm |-> p[3], dm |-> p[4],
               y_pred |-> None, loss |-> None, grad_y_pred |-> None,
               grad_a |-> None, grad_b |-> None, grad_c |-> None,
               grad_d |-> None,
               start |-> p]
    /\ LayersIdle

\* The next statement of the manual loop; after the last one of the body the
\* next epoch starts.
ManualStep ==
    /\ gd.loop = "manual"
    /\ gd.e < MaxEpoch
    /\ LET ns == ManualExec(ManualStatements[gd.i], gd)
       IN  gd' = IF gd.i = Len(ManualStatements)
                 THEN [ns EXCEPT !.i = 1, !.e = gd.e + 1,
                                 !.start = <<ns.am, ns.bm, ns.cm, ns.dm>>]
                 ELSE [ns EXCEPT !.i = gd.i + 1]
    /\ UNCHANGED LayerVars

SpecManual == InitManual /\ [][ManualStep]_vars

\* loss.backward() adds the gradient of the loss to the gradient a parameter
\* holds, or sets it where the parameter holds None.
Accumulate(held, g) == IF held = None THEN g ELSE RAdd(held, g)

\* Mutant: the body of the autograd loop without the four resets.
AutogradStatementsNoReset ==
    <<"yt_pred", "loss", "backward", "ap", "bp", "cp", "dp">>

\* The body of the autograd loop.
AutogradStatements ==
    <<"yt_pred", "loss", "backward", "ap", "bp", "cp", "dp",
      "ap.grad", "bp.grad", "cp.grad", "dp.grad">>

\* loss.backward() goes back through loss = mean((yt_pred - yt)^2 / 2) and
\* yt_pred = ap + bp * x1t + cp * x2t + dp * x3t as they were evaluated in the
\* forward statements: the gradient reaching yt_pred[n] is
\* (yt_pred[n] - yt[n]) / N, and a parameter receives the sum over n of that
\* times its factor in yt_pred[n].
AutogradExec(stmt, ns) ==
    CASE stmt = "yt_pred" ->
           [ns EXCEPT !.yt_pred = Predict(ns.ap, ns.bp, ns.cp, ns.dp,
                                          ns.x1t, ns.x2t, ns.x3t)]
      [] stmt = "loss" ->
           [ns EXCEPT !.loss = HalfSquaredError(ns.yt_pred, ns.yt)]
      [] stmt = "backward" ->
           LET up == VSub(ns.yt_pred, ns.yt)
           IN  [ns EXCEPT
                  !.ap_grad = Accumulate(@, GradMean(up, Ones(ns.yt))),
                  !.bp_grad = Accumulate(@, GradMean(up, ns.x1t)),
                  !.cp_grad = Accumulate(@, GradMean(up, ns.x2t)),
                  !.dp_grad = Accumulate(@, GradMean(up, ns.x3t))]
      [] stmt = "ap" ->
           [ns EXCEPT !.ap = Descend(ns.ap, ns.learning_rate, ns.ap_grad)]
      [] stmt = "bp" ->
           [ns EXCEPT !.bp = Descend(ns.bp, ns.learning_rate, ns.bp_grad)]
      [] stmt = "cp" ->
           [ns EXCEPT !.cp = Descend(ns.cp, ns.learning_rate, ns.cp_grad)]
      [] stmt = "dp" ->
           [ns EXCEPT !.dp = Descend(ns.dp, ns.learning_rate, ns.dp_grad)]
      [] stmt = "ap.grad" -> [ns EXCEPT !.ap_grad = None]
      [] stmt = "bp.grad" -> [ns EXCEPT !.bp_grad = None]
      [] stmt = "cp.grad" -> [ns EXCEPT !.cp_grad = None]
      [] stmt = "dp.grad" -> [ns EXCEPT !.dp_grad = None]

InitAutograd ==
    /\ \E dt \in Data : \E p \in StartValues : \E lr \in LearningRates :
         gd = [loop |-> "autograd", e |-> 0, i |-> 1,
               x1t |-> dt.x1, x2t |-> dt.x2, x3t |-> dt.x3, yt |-> dt.y,
               learning_rate |-> lr,
               ap |-> p[1], bp |-> p[2], cp |-> p[3], dp |-> p[4],
               ap_grad |-> None, bp_grad |-> None, cp_grad |-> None,
               dp_grad |-> None,
               yt_pred |-> None, loss |-> None,
               start |-> p]
    /\ LayersIdle

AutogradStep ==
    /\ gd.loop = "autograd"
    /\ gd.e < MaxEpoch
    /\ LET ns == AutogradExec(AutogradStatements[gd.i], gd)
       IN  gd' = IF gd.i = Len(AutogradStatements)
                 THEN [ns EXCEPT !.i = 1, !.e = gd.e + 1,
                                 !.start = <<ns.ap, ns.bp, ns.cp, ns.dp>>]
                 ELSE [ns EXCEPT !.i = gd.i + 1]
    /\ UNCHANGED LayerVars

\* Mutant: the body of the torch.nn loop without optimizer.zero_grad().
OptimStatementsNoZeroGrad == <<"yt_pred", "loss", "backward", "step">>

\* The body of the torch.nn loop.
OptimStatements == <<"yt_pred", "loss", "zero_grad", "backward", "step">>

\* model = Sequential(Linear(3, 1), Flatten(0, 1)) holds bias and
\* weight = <<w1, w2, w3>>; model(xt) is bias + w1 * x1 + w2 * x2 + w3 * x3
\* for the rows <<x1, x2, x3>> of xt.  optimizer.zero_grad() sets the
\* gradients to None or, in a torch that does not, to 0 where they are set
\* (set_to_none tells which).  optimizer.step() of SGD takes
\* lr times the gradient off every parameter that holds one.
OptimExec(stmt, ns) ==
    CASE stmt = "yt_pred" ->
           [ns EXCEPT !.yt_pred =
               Predict(ns.bias, ns.weight[1], ns.weight[2], ns.weight[3],
                       ns.xt[1], ns.xt[2], ns.xt[3])]
      [] stmt = "loss" ->
           [ns EXCEPT !.loss =
               RDiv(Mean(VSquare(VSub(ns.yt_pred, ns.yt))), R(2))]
      [] stmt = "zero_grad" ->
           IF ns.set_to_none
           THEN [ns EXCEPT !.bias_grad = None, !.weight_grad = None]
           ELSE [ns EXCEPT
                   !.bias_grad = IF @ = None THEN None ELSE R(0),
                   !.weight_grad = IF @ = None THEN None
                                   ELSE <<R(0), R(0), R(0)>>]
      [] stmt = "backward" ->
           LET up == VSub(ns.yt_pred, ns.yt)
               gw == <<GradMean(up, ns.xt[1]), GradMean(up, ns.xt[2]),
                       GradMean(up, ns.xt[3])>>
           IN  [ns EXCEPT
                  !.bias_grad = Accumulate(@, GradMean(up, Ones(ns.yt))),
                  !.weight_grad = IF @ = None THEN gw ELSE VAdd(@, gw)]
      [] stmt = "step" ->
           [ns EXCEPT
              !.bias = IF ns.bias_grad = None THEN @
                       ELSE Descend(@, ns.learning_rate, ns.bias_grad),
              !.weight = IF ns.weight_grad = None THEN @
                         ELSE [k \in 1..3 |->
                                 Descend(@[k], ns.learning_rate,
                                         ns.weight_grad[k])]]

InitOptim ==
    /\ \E dt \in Data : \E p \in StartValues : \E lr \in LearningRates :
         \E stn \in BOOLEAN :
           gd = [loop |-> "optim", e |-> 0, i |-> 1,
                 xt |-> <<dt.x1, dt.x2, dt.x3>>, yt |-> dt.y,
                 learning_rate |-> lr, set_to_none |-> stn,
                 bias |-> p[1], weight |-> <<p[2], p[3], p[4]>>,
                 bias_grad |-> None, weight_grad |-> None,
                 yt_pred |-> None, loss |-> None,
                 start |-> p]
    /\ LayersIdle

OptimStep ==
    /\ gd.loop = "optim"
    /\ gd.e < MaxEpoch
    /\ LET ns == OptimExec(OptimStatements[gd.i], gd)
       IN  gd' = IF gd.i = Len(OptimStatements)
                 THEN [ns EXCEPT !.i = 1, !.e = gd.e + 1,
                                 !.start = <<ns.bias, ns.weight[1],
                                             ns.weight[2], ns.weight[3]>>]
                 ELSE [ns EXCEPT !.i = gd.i + 1]
    /\ UNCHANGED LayerVars

\* The two PyTorch training loops.
InitTorch == InitAutograd \/ InitOptim

NextTorch == AutogradStep \/ OptimStep

SpecTorch == InitTorch /\ [][NextTorch]_vars

-----------------------------------------------------------------------------
(* Properties.  The expected values are written entry by entry, as sums,    *)
(* and not with the array operations the layers use.                        *)

\* f[1] + ... + f[n]
RECURSIVE Sigma(_, _)
Sigma(f, n) == IF n = 0 THEN R(0) ELSE RAdd(Sigma(f, n - 1), f[n])

\* m is an r-by-c array.
HasShape(m, r, c) == Len(m) = r /\ \A i \in 1..r : Len(m[i]) = c

\* m is the r-by-c array whose entry (i, j) is e[i][j].
IsArray(m, r, c, e) ==
    /\ HasShape(m, r, c)
    /\ \A i \in 1..r : \A j \in 1..c : m[i][j] = e[i][j]

\* Entry (i, j) of x^T . g, of g . w^T and of x . w + bias, and entry j of
\* the column sums of g, for x of n rows, g of n rows and w of in rows and
\* outd columns.
XtG(x, g, n) ==
    [i \in 1..Len(x[1]) |-> [j \in 1..Len(g[1]) |->
        Sigma([b \in 1..n |-> RMul(x[b][i], g[b][j])], n)]]

GWt(g, w) ==
    [b \in 1..Len(g) |-> [i \in 1..Len(w) |->
        Sigma([j \in 1..Len(w[1]) |-> RMul(g[b][j], w[i][j])], Len(w[1]))]]

XWb(x, w, bias) ==
    [b \in 1..Len(x) |-> [j \in 1..Len(w[1]) |->
        RAdd(Sigma([i \in 1..Len(w) |-> RMul(x[b][i], w[i][j])], Len(w)),
             bias[j])]]

ColSums(g) ==
    [j \in 1..Len(g[1]) |-> Sigma([b \in 1..Len(g) |-> g[b][j]], Len(g))]

DenseReturned(op) ==
    lastCall = [obj |-> "dense", op |-> op] /\ ret # Raised

in_dim == dense.shape[1]
out_dim == dense.shape[2]

\* C3: when dense.backward_pass(cum_grad) has returned, with cum_grad of
\* shape [batch, out_dim] and the stored input of shape [batch, in_dim],
\* grad_weights is input^T . cum_grad ([in_dim, out_dim]), grad_bias is the
\* sum of cum_grad over the batch axis ([1, out_dim]), and the value returned
\* is cum_grad . weights^T ([batch, in_dim]).
DenseBackwardGradients ==
    DenseReturned("backward_pass") =>
        LET g == hist.bwdArg
            x == dense.input
            n == Len(g)
        IN  /\ HasShape(g, n, out_dim) /\ HasShape(x, n, in_dim)
            /\ IsArray(dense.grad_weights, in_dim, out_dim, XtG(x, g, n))
            /\ IsArray(dense.grad_bias, 1, out_dim, <<ColSums(g)>>)
            /\ IsArray(ret, n, in_dim, GWt(g, dense.weights))

\* A backward_pass over a batch of two rows has returned a gradient that is
\* not zero everywhere.
DenseBackwardGradientsWitness ==
    /\ DenseReturned("backward_pass")
    /\ Len(hist.bwdArg) = 2
    /\ \E i \in 1..in_dim : \E j \in 1..out_dim :
         dense.grad_weights[i][j] # R(0)
    /\ dense.grad_bias # <<[j \in 1..out_dim |-> R(0)]>>
    /\ \E b \in 1..2 : \E i \in 1..in_dim : ret[b][i] # R(0)

\* C4: when dense.forward_pass(x) has returned, with x of shape
\* [batch, in_dim], the value returned is x . weights + bias, the bias added
\* to every row, of shape [batch, out_dim].
DenseForwardAffine ==
    DenseReturned("forward_pass") =>
        LET x == hist.fwdArg
        IN  /\ HasShape(x, Len(x), in_dim)
            /\ IsArray(ret, Len(x), out_dim,
                       XWb(x, dense.weights, dense.bias))

\* A forward_pass over a batch of two rows has returned, the bias being not
\* zero.
DenseForwardAffineWitness ==
    /\ DenseReturned("forward_pass")
    /\ Len(hist.fwdArg) = 2
    /\ \E j \in 1..out_dim : dense.bias[j] # R(0)
    /\ ret[1] # ret[2]

\* C5: no forward_pass and no backward_pass step of the LinearLayer changes
\* its weights or its bias.
DenseParametersKept ==
    [][(lastCall'.obj = "dense"
        /\ lastCall'.op \in {"forward_pass", "backward_pass"})
       => (dense'.weights = dense.weights /\ dense'.bias = dense.bias)]_vars

\* A backward_pass has returned, with gradients that a descent step would
\* have applied to every parameter.
DenseParametersKeptWitness ==
    /\ DenseReturned("backward_pass")
    /\ \A i \in 1..in_dim : \A j \in 1..out_dim :
         dense.grad_weights[i][j] # R(0)
    /\ \A j \in 1..out_dim : dense.grad_bias[1][j] # R(0)

\* C6 as stated: the value backward_pass returns is cum_grad times the
\* transpose of the weights that were in effect at the latest forward_pass,
\* also when the caller has assigned other weights since.
DenseBackwardUsesForwardWeights ==
    DenseReturned("backward_pass") =>
        IsArray(ret, Len(hist.bwdArg), in_dim,
                GWt(hist.bwdArg, hist.fwdWeights))

\* C6 amended: the copy is taken when backward_pass starts, so the value
\* returned is cum_grad times the transpose of the weights the layer holds
\* when backward_pass is called; weights assigned between forward_pass and
\* backward_pass are the ones used.
DenseBackwardUsesCurrentWeights ==
    DenseReturned("backward_pass") =>
        IsArray(ret, Len(hist.bwdArg), in_dim,
                GWt(hist.bwdArg, dense.weights))

\* backward_pass has returned after the caller replaced the weights that
\* forward_pass ran with, and the two weight matrices give different results.
DenseBackwardUsesCurrentWeightsWitness ==
    /\ DenseReturned("backward_pass")
    /\ hist.fwdWeights # dense.weights
    /\ GWt(hist.bwdArg, hist.fwdWeights) # GWt(hist.bwdArg, dense.weights)

\* C9 as stated: once forward_pass and backward_pass have each been called,
\* grad_weights is (input of the most recent forward_pass)^T times (cum_grad
\* of the most recent backward_pass) and grad_bias is the batch-axis sum of
\* that cum_grad.
DenseGradientsFromLatestForward ==
    (hist.fwdArg # None /\ hist.bwdArg # None) =>
        /\ Len(hist.fwdArg) = Len(hist.bwdArg)
        /\ IsArray(dense.grad_weights, in_dim, out_dim,
                   XtG(hist.fwdArg, hist.bwdArg, Len(hist.bwdArg)))
        /\ IsArray(dense.grad_bias, 1, out_dim, <<ColSums(hist.bwdArg)>>)

\* C9 amended: grad_weights and grad_bias are None until a backward_pass has
\* assigned them; from then on grad_weights is (the input the layer held when
\* the most recent such backward_pass ran)^T times its cum_grad, and
\* grad_bias is the batch-axis sum of that cum_grad, whatever forward_pass
\* calls or failed backward_pass calls came since: the gradients are
\* overwritten, not accumulated, and a later forward_pass does not touch them.
DenseGradientsFromLatestBackward ==
    IF hist.bwdArg = None
    THEN dense.grad_weights = None /\ dense.grad_bias = None
    ELSE /\ IsArray(dense.grad_weights, in_dim, out_dim,
                    XtG(hist.bwdInput, hist.bwdArg, Len(hist.bwdArg)))
         /\ IsArray(dense.grad_bias, 1, out_dim, <<ColSums(hist.bwdArg)>>)

\* The layer holds gradients of an earlier backward_pass and an input that a
\* later forward_pass stored, of another batch size.
DenseGradientsFromLatestBackwardWitness ==
    /\ lastCall = [obj |-> "dense", op |-> "forward_pass"]
    /\ hist.bwdArg # None
    /\ dense.input # hist.bwdInput
    /\ Len(dense.input) # Len(hist.bwdInput)
    /\ dense.grad_weights # None

ReLUReturned(op) ==
    lastCall = [obj |-> "relu", op |-> op] /\ ret # Raised

SameShape(a, b) ==
    Len(a) = Len(b) /\ \A i \in 1..Len(a) : Len(a[i]) = Len(b[i])

\* C10: when relu.backward_pass(cum_grad) has returned, cum_grad having the
\* shape of the stored input, the value returned holds cum_grad where the
\* stored input is greater than 0 and 0 elsewhere, and the derivative kept
\* in grad is 1 where the stored input is greater than 0 and 0 elsewhere; so
\* both are 0 where the stored input is exactly 0.
ReLUBackwardMasks ==
    (ReLUReturned("backward_pass") /\ SameShape(hist.bwdArg, relu.input)) =>
        LET x == relu.input
            g == hist.bwdArg
        IN  /\ SameShape(ret, x) /\ SameShape(relu.grad, x)
            /\ \A i \in 1..Len(x) : \A j \in 1..Len(x[i]) :
                 IF x[i][j][1] > 0
                 THEN ret[i][j] = g[i][j] /\ relu.grad[i][j] = R(1)
                 ELSE ret[i][j] = R(0) /\ relu.grad[i][j] = R(0)

\* backward_pass has returned for a stored input with an entry that is
\* exactly 0, a positive one and a negative one.
ReLUBackwardMasksWitness ==
    /\ ReLUReturned("backward_pass")
    /\ SameShape(hist.bwdArg, relu.input)
    /\ \E i \in 1..Len(relu.input) : \E j \in 1..Len(relu.input[i]) :
         relu.input[i][j] = R(0) /\ hist.bwdArg[i][j] # R(0)
    /\ \E i \in 1..Len(relu.input) : \E j \in 1..Len(relu.input[i]) :
         relu.input[i][j][1] > 0
    /\ \E i \in 1..Len(relu.input) : \E j \in 1..Len(relu.input[i]) :
         relu.input[i][j][1] < 0

IsForward(c) == c.op = "forward_pass"
IsBackward(c) == c.op = "backward_pass"
IsSeed(c) == c.op = "seed"

ForwardDone == pc \in {"seed_cell", "backward_loop", "done"}

\* C7: the k-th forward_pass call of the notebook's forward loop is made on
\* layers[k]; the first is given the input batch and every later one the
\* value the call before it returned; once the loop has ended every layer
\* has been called exactly once and out (probs_np) is what the last layer
\* returned.
NetForwardInOrder ==
    LET F == SelectSeq(calls, IsForward)
    IN  /\ Len(F) <= Len(layers)
        /\ \A k \in 1..Len(F) :
             /\ F[k].layer = k
             /\ F[k].arg = IF k = 1 THEN x_in ELSE F[k - 1].ret
             /\ F[k].ret # Raised
        /\ ForwardDone => (Len(F) = Len(layers) /\ out = F[Len(F)].ret)

\* The forward loop has ended on a batch of two different rows.
NetForwardInOrderWitness ==
    /\ pc = "seed_cell"
    /\ Len(x_in) = 2
    /\ x_in[1] # x_in[2]
    /\ out[1] # out[2]
    /\ Len(SelectSeq(calls, IsForward)) = 4

\* C8: the k-th backward_pass call of the notebook's backward loop is made
\* on layers[Len(layers) + 1 - k]; the first is given the seed gradient and
\* every later one the gradient the call before it returned; a layer is
\* called only after every layer that follows it in the list; once the loop
\* has ended every layer has been called exactly once.
NetBackwardInReverseOrder ==
    LET B == SelectSeq(calls, IsBackward)
        S == SelectSeq(calls, IsSeed)
    IN  /\ Len(B) <= Len(layers)
        /\ \A k \in 1..Len(B) :
             /\ B[k].layer = Len(layers) + 1 - k
             /\ B[k].arg = IF k = 1 THEN S[1].ret ELSE B[k - 1].ret
             /\ B[k].ret # Raised
             /\ \A j \in (B[k].layer + 1)..Len(layers) :
                  \E m \in 1..(k - 1) : B[m].layer = j
        /\ pc = "done" => (Len(B) = Len(layers) /\ grad = B[Len(B)].ret)

\* The backward loop has ended on a batch of two rows and has left gradients
\* in both LinearLayers.
NetBackwardInReverseOrderWitness ==
    /\ pc = "done"
    /\ Len(x_in) = 2
    /\ Len(SelectSeq(calls, IsBackward)) = 4
    /\ \E i \in 1..2 : \E j \in 1..4 : layers[1].grad_weights[i][j] # R(0)
    /\ \E i \in 1..4 : layers[3].grad_weights[i][1] # R(0)

\* C11: when relu.forward_pass(x) has returned, the layer's input is x and
\* the value returned has the shape of x and holds x where x is greater than
\* 0 and 0 elsewhere: 0 for an entry that is exactly 0 and for every
\* negative entry.
ReLUForwardRectifies ==
    ReLUReturned("forward_pass") =>
        LET x == hist.fwdArg
        IN  /\ relu.input = x
            /\ SameShape(ret, x)
            /\ \A i \in 1..Len(x) : \A j \in 1..Len(x[i]) :
                 ret[i][j] = IF x[i][j][1] > 0 THEN x[i][j] ELSE R(0)

\* forward_pass has returned for an x with a negative entry, an entry that is
\* exactly 0 and a positive one.
ReLUForwardRectifiesWitness ==
    /\ ReLUReturned("forward_pass")
    /\ \E i \in 1..Len(ret) : \E j \in 1..Len(ret[i]) :
         hist.fwdArg[i][j][1] < 0 /\ ret[i][j] = R(0)
    /\ \E i \in 1..Len(ret) : \E j \in 1..Len(ret[i]) :
         hist.fwdArg[i][j] = R(0)
    /\ \E i \in 1..Len(ret) : \E j \in 1..Len(ret[i]) :
         hist.fwdArg[i][j][1] > 0 /\ ret[i][j] = hist.fwdArg[i][j]

SigmoidReturned(op) ==
    lastCall = [obj |-> "sigmoid", op |-> op] /\ ret # Raised

\* exp(x) / (1 + exp(x))^2, the derivative of the logistic function at x.
LogisticSlope(x) ==
    RDiv(Exp(x), RMul(RAdd(R(1), Exp(x)), RAdd(R(1), Exp(x))))

\* C12: when sigmoid.backward_pass(cum_grad) has returned, cum_grad having
\* the shape of the stored input, the stored input x is the argument of the
\* most recent forward_pass, and the value returned is, entry by entry,
\* cum_grad times sigmoid(x) * (1 - sigmoid(x)); that derivative is what the
\* layer keeps in grad.
SigmoidBackwardDerivative ==
    (SigmoidReturned("backward_pass")
        /\ SameShape(hist.bwdArg, sigmoid.input)) =>
        LET x == sigmoid.input
            g == hist.bwdArg
        IN  /\ x = hist.fwdArg
            /\ SameShape(ret, x) /\ SameShape(sigmoid.grad, x)
            /\ \A i \in 1..Len(x) : \A j \in 1..Len(x[i]) :
                 /\ sigmoid.grad[i][j] = LogisticSlope(x[i][j])
                 /\ ret[i][j] = RMul(g[i][j], LogisticSlope(x[i][j]))

\* backward_pass has returned over a batch of two rows whose stored inputs
\* differ, with a cum_grad that is not 1.
SigmoidBackwardDerivativeWitness ==
    /\ SigmoidReturned("backward_pass")
    /\ Len(sigmoid.input) = 2 /\ Len(hist.bwdArg) = 2
    /\ sigmoid.input[1] # sigmoid.input[2]
    /\ hist.bwdArg[1][1] # R(1)
    /\ ret[1][1] # R(0)

\* C13 as stated: the value forward_pass returns lies strictly between 0 and
\* 1, for every finite input.
SigmoidOutputStrictlyInside ==
    SigmoidReturned("forward_pass") => ret[1][1] = "(0,1)"

\* C13 amended: the float64 value forward_pass returns lies in the closed
\* interval [0, 1].  For a whole number x it is strictly between 0 and 1
\* exactly when -709 <= x <= 36; it is 1.0 for x >= 37, where exp(-x) is
\* rounded away in 1 + exp(-x), and 0.0 for x <= -710, where np.exp(-x)
\* overflows to inf.
SigmoidOutputSaturates ==
    SigmoidReturned("forward_pass") =>
        LET n == hist.fwdArg[1][1][1]
        IN  /\ sigmoid.input = hist.fwdArg
            /\ ret[1][1] = IF n >= 37 THEN "1.0"
                           ELSE IF n <= -710 THEN "0.0"
                           ELSE "(0,1)"

\* forward_pass has returned exactly 1.0 for the finite input 37.
SigmoidOutputSaturatesWitness ==
    /\ SigmoidReturned("forward_pass")
    /\ hist.fwdArg = <<<<R(37)>>>>
    /\ ret = <<<<"1.0">>>>

\* C14: the seed gradient handed to the first backward_pass call has one
\* entry per example; for an example with predicted probability p and label
\* y it is -1 / (p * N) when y = 1 and 1 / ((1 - p) * N) when y = 0, N being
\* the number of rows of the batch.
SeedIsAveragedLossGradient ==
    LET S == SelectSeq(calls, IsSeed)
        B == SelectSeq(calls, IsBackward)
    IN  /\ Len(S) <= 1
        /\ Len(S) = 1 =>
             LET N == Len(x_in)
                 g == S[1].ret
             IN  /\ HasShape(g, N, 1)
                 /\ \A i \in 1..N :
                      LET p == out[i][1]
                      IN  g[i][1] =
                            IF y[i][1] = R(1)
                            THEN RDiv(R(-1), RMul(p, R(N)))
                            ELSE RDiv(R(1), RMul(RSub(R(1), p), R(N)))
                 /\ pc = "backward_loop" /\ idx = 1 => grad = g
                 /\ Len(B) >= 1 => B[1].arg = g

\* The seed of a batch of two rows, one of each label, has been handed to the
\* backward pass.
SeedIsAveragedLossGradientWitness ==
    /\ Len(SelectSeq(calls, IsBackward)) >= 1
    /\ Len(x_in) = 2
    /\ y[1] # y[2]
    /\ out[1] # out[2]

\* C16: once a backward_pass given cum_grad of shape [batch, out_dim] has
\* assigned the gradients, after a forward_pass over a batch of shape
\* [batch, in_dim], grad_weights has the shape of weights, [in_dim, out_dim],
\* and grad_bias has the shape [1, out_dim]; this stays so through every
\* later call.
DenseGradientShapes ==
    (/\ hist.bwdArg # None
     /\ HasShape(hist.bwdArg, Len(hist.bwdArg), out_dim)
     /\ HasShape(hist.bwdInput, Len(hist.bwdArg), in_dim)) =>
        /\ SameShape(dense.grad_weights, dense.weights)
        /\ Len(dense.grad_weights) = in_dim
        /\ \A i \in 1..in_dim : Len(dense.grad_weights[i]) = out_dim
        /\ Len(dense.grad_bias) = 1
        /\ Len(dense.grad_bias[1]) = out_dim

\* backward_pass has returned over a batch of two rows on a layer whose
\* weights are not square.
DenseGradientShapesWitness ==
    /\ DenseReturned("backward_pass")
    /\ in_dim # out_dim
    /\ Len(hist.bwdArg) = 2
    /\ dense.grad_weights # None

\* C17: a forward_pass step of the LinearLayer changes no field of the layer
\* but input, which becomes the argument: weights, bias, grad_weights and
\* grad_bias are left as they were; and as long as no backward_pass has
\* assigned them, grad_weights and grad_bias are None, however many
\* forward_pass calls have been made.
DenseForwardStoresInputOnly ==
    /\ [](hist.bwdArg = None =>
             dense.grad_weights = None /\ dense.grad_bias = None)
    /\ [][(lastCall'.obj = "dense" /\ lastCall'.op = "forward_pass") =>
             dense' = [dense EXCEPT !.input = hist'.fwdArg]]_vars

\* A forward_pass over a batch of two rows has returned on a layer that
\* holds the gradients of an earlier backward_pass.
DenseForwardStoresInputOnlyWitness ==
    /\ DenseReturned("forward_pass")
    /\ Len(dense.input) = 2
    /\ dense.grad_weights # None /\ dense.grad_bias # None
    /\ \E i \in 1..in_dim : \E j \in 1..out_dim :
         dense.grad_weights[i][j] # R(0)

\* C18: the value a forward_pass returns is decided by the argument and, for
\* a LinearLayer, the weights and the bias: it is the value a newly made
\* layer with the same weights and bias returns for the same argument,
\* whatever forward_pass and backward_pass calls the layer has served before.
\* Two calls with identical input under the same weights and bias hence
\* return identical output.
ForwardDeterministic ==
    (lastCall.op = "forward_pass" /\ ret # Raised) =>
        CASE lastCall.obj = "dense" ->
               ret = LinearForward(LinearLayer(dense.shape, dense.weights,
                                               dense.bias), hist.fwdArg).ret
          [] lastCall.obj = "relu" ->
               ret = ReLUForward(ReLU, hist.fwdArg).ret
          [] lastCall.obj = "sigmoid" ->
               ret = SigmoidForward(Sigmoid, hist.fwdArg).ret

\* A LinearLayer has returned from a forward_pass whose argument it was given
\* before, in the forward_pass that preceded its latest backward_pass.
ForwardDeterministicWitness ==
    /\ DenseReturned("forward_pass")
    /\ hist.bwdArg # None
    /\ hist.fwdArg = hist.bwdInput
    /\ dense.grad_bias # None

\* The activation layer the caller drives, and the derivative of its
\* function at x, entry by entry.
Activation == IF relu # None THEN relu ELSE sigmoid

LocalSlope(cls, x) ==
    [i \in 1..Len(x) |-> [j \in 1..Len(x[i]) |->
        IF cls = "ReLU" THEN (IF x[i][j][1] > 0 THEN R(1) ELSE R(0))
        ELSE LogisticSlope(x[i][j])]]

IsActivationCall(c) ==
    c.obj \in {"relu", "sigmoid"} /\ c.op \in {"forward_pass", "backward_pass"}

\* C19 as stated: no forward_pass or backward_pass call on a ReLU or a
\* Sigmoid changes any field of the layer other than input.
ActivationChangesInputOnly ==
    [][IsActivationCall(lastCall') =>
         Activation' = [Activation EXCEPT !.input = Activation'.input]]_vars

\* C19 amended: a ReLU or a Sigmoid has no parameters; its fields are input
\* and grad.  forward_pass changes no field but input, which becomes the
\* argument.  backward_pass changes no field but grad, which becomes the
\* derivative of the layer's function at the stored input; a backward_pass
\* that finds no stored input changes nothing.
ActivationHoldsInputAndGrad ==
    /\ [](DOMAIN Activation = {"cls", "input", "grad"})
    /\ [][(IsActivationCall(lastCall') /\ lastCall'.op = "forward_pass") =>
             Activation' = [Activation EXCEPT !.input = hist'.fwdArg]]_vars
    /\ [][(IsActivationCall(lastCall') /\ lastCall'.op = "backward_pass") =>
             Activation' =
               IF Activation.input = None THEN Activation
               ELSE [Activation EXCEPT !.grad =
                        LocalSlope(Activation.cls, Activation.input)]]_vars

\* A backward_pass has returned and has left in grad a derivative that is
\* neither all 0 nor the same for every entry.
ActivationHoldsInputAndGradWitness ==
    /\ IsActivationCall(lastCall) /\ lastCall.op = "backward_pass"
    /\ ret # Raised
    /\ Activation.grad # None
    /\ Len(Activation.grad) = 2
    /\ Activation.grad[1] # Activation.grad[2]

\* C20: as long as forward_pass has never been called on a layer its stored
\* input and its gradients (grad_weights and grad_bias, or grad) are None,
\* and a backward_pass called then ends in an exception, returns no gradient
\* and leaves every field of the layer, weights and bias included, as it
\* was.
BackwardBeforeForwardRaises ==
    /\ [](hist.fwdArg = None =>
             /\ dense # None =>
                  /\ dense.input = None
                  /\ dense.grad_weights = None /\ dense.grad_bias = None
             /\ relu # None => relu.input = None /\ relu.grad = None
             /\ sigmoid # None =>
                  sigmoid.input = None /\ sigmoid.grad = None)
    /\ [][(lastCall'.op = "backward_pass" /\ hist.fwdArg = None) =>
             /\ ret' = Raised
             /\ dense' = dense /\ relu' = relu /\ sigmoid' = sigmoid]_vars

\* A backward_pass has been called on a LinearLayer that has served no
\* forward_pass.
BackwardBeforeForwardRaisesWitness ==
    /\ lastCall = [obj |-> "dense", op |-> "backward_pass"]
    /\ hist.fwdArg = None
    /\ ret = Raised
    /\ dense.weights # None /\ dense.grad_bias = None

\* C21: the gradient the Sigmoid's backward_pass returns for the seed, which
\* is the seed (-(y/p) + (1 - y)/(1 - p)) / N times the derivative
\* p * (1 - p), is (p - y) / N for every example, the gradient of the
\* cross-entropy taken on the logits.
SeedThroughSigmoidIsResidual ==
    LET B == SelectSeq(calls, IsBackward)
    IN  Len(B) >= 1 =>
          LET N == Len(x_in)
          IN  /\ layers[B[1].layer].cls = "Sigmoid"
              /\ HasShape(B[1].ret, N, 1)
              /\ \A i \in 1..N :
                   /\ out[i][1][1] > 0 /\ out[i][1][1] < out[i][1][2]
                   /\ B[1].ret[i][1] = RDiv(RSub(out[i][1], y[i][1]), R(N))

\* The Sigmoid has returned from backward_pass for a batch of two rows with
\* different probabilities, one labelled 0 and one labelled 1.
SeedThroughSigmoidIsResidualWitness ==
    /\ Len(SelectSeq(calls, IsBackward)) = 1
    /\ Len(x_in) = 2
    /\ y[1] = <<R(0)>> /\ y[2] = <<R(1)>>
    /\ out[1] # out[2]
    /\ grad[1] # grad[2]

\* The shape of an array, as <<rows, columns>>.
ShapeOf(m) == <<Len(m), Len(m[1])>>

\* The forward_pass call made on layer i.
ForwardCallOf(i) ==
    LET F == SelectSeq(calls, IsForward)
    IN  F[CHOOSE k \in 1..Len(F) : F[k].layer = i]

\* C22: with out_dim of l0 equal to in_dim of l1 and a seed of the shape of
\* the network output, every backward_pass call is given a cum_grad of the
\* shape of the output the layer returned in the forward pass and returns a
\* gradient of the shape of the layer's stored input; the gradient left when
\* the loop has ended has the shape of the input batch.
NetBackwardShapes ==
    LET B == SelectSeq(calls, IsBackward)
        S == SelectSeq(calls, IsSeed)
    IN  /\ layers[1].shape[2] = layers[3].shape[1]
        /\ Len(S) = 1 => ShapeOf(S[1].ret) = ShapeOf(out)
        /\ \A k \in 1..Len(B) :
             LET i == B[k].layer
             IN  /\ B[k].ret # Raised
                 /\ ShapeOf(B[k].arg) = ShapeOf(ForwardCallOf(i).ret)
                 /\ ShapeOf(B[k].ret) = ShapeOf(layers[i].input)
                 /\ layers[i].input = ForwardCallOf(i).arg
        /\ pc = "done" => ShapeOf(grad) = ShapeOf(x_in)

\* The backward loop has ended on a batch of two rows; the gradient has
\* passed through the shapes [2, 1], [2, 4] and [2, 2].
NetBackwardShapesWitness ==
    /\ pc = "done"
    /\ ShapeOf(x_in) = <<2, 2>>
    /\ ShapeOf(layers[2].input) = <<2, 4>>
    /\ ShapeOf(out) = <<2, 1>>
    /\ ShapeOf(grad) = <<2, 2>>

\* The data, the parameters and the gradients of the running loop of
\* notebook 1, under common names, and the statement it executes next.
GdData ==
    CASE gd.loop = "manual" -> <<gd.x1, gd.x2, gd.x3, gd.y>>
      [] gd.loop = "autograd" -> <<gd.x1t, gd.x2t, gd.x3t, gd.yt>>
      [] gd.loop = "optim" -> <<gd.xt[1], gd.xt[2], gd.xt[3], gd.yt>>

GdParams ==
    CASE gd.loop = "manual" -> <<gd.am, gd.bm, gd.cm, gd.dm>>
      [] gd.loop = "autograd" -> <<gd.ap, gd.bp, gd.cp, gd.dp>>
      [] gd.loop = "optim" ->
           <<gd.bias, gd.weight[1], gd.weight[2], gd.weight[3]>>

GdGrads ==
    CASE gd.loop = "manual" -> <<gd.grad_a, gd.grad_b, gd.grad_c, gd.grad_d>>
      [] gd.loop = "autograd" ->
           <<gd.ap_grad, gd.bp_grad, gd.cp_grad, gd.dp_grad>>
      [] gd.loop = "optim" ->
           IF gd.weight_grad = None
           THEN <<gd.bias_grad, None, None, None>>
           ELSE <<gd.bias_grad, gd.weight_grad[1], gd.weight_grad[2],
                  gd.weight_grad[3]>>

GdNext ==
    CASE gd.loop = "manual" -> ManualStatements[gd.i]
      [] gd.loop = "autograd" -> AutogradStatements[gd.i]
      [] gd.loop = "optim" -> OptimStatements[gd.i]

\* The residual of observation n under the parameters p, and the factor of
\* parameter k in the prediction for observation n.
Residual(p, n) ==
    RSub(RAdd(RAdd(RAdd(p[1], RMul(p[2], GdData[1][n])),
                   RMul(p[3], GdData[2][n])),
              RMul(p[4], GdData[3][n])),
         GdData[4][n])

Factor(k, n) == IF k = 1 THEN R(1) ELSE GdData[k - 1][n]

\* The loss at the parameters p: the mean over the observations of half the
\* squared residual.
LossAt(p) ==
    LET N == Len(GdData[4])
    IN  RDiv(Sigma([n \in 1..N |->
                      RDiv(RMul(Residual(p, n), Residual(p, n)), R(2))], N),
             R(N))

\* The partial derivative of the loss with respect to parameter k at p.  The
\* loss is a polynomial of degree 2 in every parameter, so the derivative is
\* the centered difference quotient, for any step; the step is 1.
Partial(p, k) ==
    LET up == [p EXCEPT ![k] = RAdd(@, R(1))]
        down == [p EXCEPT ![k] = RSub(@, R(1))]
    IN  RDiv(RSub(LossAt(up), LossAt(down)), R(2))

\* The mean over the observations of residual times factor of parameter k.
ResidualMean(p, k) ==
    LET N == Len(GdData[4])
    IN  RDiv(Sigma([n \in 1..N |-> RMul(Residual(p, n), Factor(k, n))], N),
             R(N))

\* C23: once the four gradient statements of an epoch of the manual loop
\* have run, loss is the mean of (y_pred - y)^2 / 2 at the parameters the
\* epoch started with, and grad_a, grad_b, grad_c and grad_d are the partial
\* derivatives of that loss with respect to a, b, c and d there.
ManualGradientsAreLossDerivatives ==
    (gd.loop = "manual" /\ GdNext \in {"am", "bm", "cm", "dm"}) =>
        /\ gd.loss = LossAt(gd.start)
        /\ \A k \in 1..4 : GdGrads[k] = Partial(gd.start, k)

\* The gradients of the second epoch have been computed and none of them is
\* 0.
ManualGradientsAreLossDerivativesWitness ==
    /\ gd.loop = "manual"
    /\ gd.e = 1
    /\ GdNext = "am"
    /\ \A k \in 1..4 : GdGrads[k] # R(0) /\ GdGrads[k] # None

\* C24: in every epoch of the manual loop, when a parameter is about to be
\* changed the prediction and all four gradients are the ones of the
\* parameters the epoch started with, also for the parameters changed
\* already; and when the epoch ends every parameter is what it was at the
\* start of the epoch less learning_rate times its own gradient at the
\* parameters of the start of the epoch.
ManualUpdateIsSimultaneous ==
    /\ []((gd.loop = "manual" /\ GdNext \in {"am", "bm", "cm", "dm"}) =>
            /\ \A n \in 1..Len(gd.y) :
                 gd.y_pred[n] = RAdd(Residual(gd.start, n), gd.y[n])
            /\ \A k \in 1..4 : GdGrads[k] = ResidualMean(gd.start, k))
    /\ [][(gd.loop = "manual" /\ gd'.e = gd.e + 1) =>
            \A k \in 1..4 :
              GdParams'[k] =
                RSub(gd.start[k],
                     RMul(gd.learning_rate, ResidualMean(gd.start, k)))]_vars

\* In the second epoch am, bm and cm have been changed and dm is about to be,
\* with a gradient that is not 0.
ManualUpdateIsSimultaneousWitness ==
    /\ gd.loop = "manual"
    /\ gd.e = 1
    /\ GdNext = "dm"
    /\ \A k \in 1..3 : GdParams[k] # gd.start[k]
    /\ gd.grad_d # R(0)

\* C25: in both PyTorch loops, when loss.backward() is about to run no
\* parameter holds a gradient other than None or 0; when a parameter is about
\* to be updated the gradient every parameter holds is the gradient of this
\* epoch's loss alone; and when the epoch ends every parameter is what it was
\* at the start of the epoch less learning_rate times that gradient.
TorchGradientsArePerEpoch ==
    /\ []((gd.loop \in {"autograd", "optim"} /\ GdNext = "backward") =>
            \A k \in 1..4 : GdGrads[k] \in {None, R(0)})
    /\ []((gd.loop \in {"autograd", "optim"}
             /\ GdNext \in {"ap", "bp", "cp", "dp", "step"}) =>
            \A k \in 1..4 : GdGrads[k] = ResidualMean(gd.start, k))
    /\ [][(gd.loop \in {"autograd", "optim"} /\ gd'.e = gd.e + 1) =>
            \A k \in 1..4 :
              GdParams'[k] =
                RSub(gd.start[k],
                     RMul(gd.learning_rate, ResidualMean(gd.start, k)))]_vars

\* The second epoch of the autograd loop is about to update ap, after a first
\* epoch whose update changed every parameter.
TorchGradientsArePerEpochWitness ==
    /\ gd.loop = "autograd"
    /\ gd.e = 1
    /\ GdNext = "ap"
    /\ gd.ap_grad # None /\ gd.ap_grad # R(0)
    /\ \A k \in 1..4 : gd.start[k] # R(0)

====
